---- MODULE Spec2Model ----
(***************************************************************************)
(* State-machine model of the Meritage Homes harvester:                    *)
(*   get_meritage_page.py      fetch_page and the batch loop of main       *)
(*   get_meritage_api_links.py get_city_links, get_community_links, main   *)
(*                                                                         *)
(* Python strings are sequences of tokens ("/" is a token of its own), so  *)
(* that split('/'), startswith('http') and concatenation are computed.     *)
(***************************************************************************)
EXTENDS Integers, Sequences, FiniteSets, TLC

VARIABLES
    frontier,   \* urls read from meritage_links.json (main, page script)
    idx,        \* position of the running loop in its list (1-based)
    pc,         \* page script: "main" (between fetch_page calls), "rows" (inside
                \* fetch_page); links script: "city", "regions", "exit"
    driver,     \* the rendering session of the running function:
                \* "none", "open", "closed", "quit_raised"
    soup,       \* the parsed top-level page: number of rows still to visit
    data,       \* the Community record under assembly / last assembled
    row,        \* index of the next quick-move-in row, then floor-plan row
    jsonDir,    \* output_dir/json: file name -> content
    htmlDir,    \* output_dir/html: file name -> content
    log,        \* per fetch_page call of this run: what the call did
    lastCycle,  \* the enrichment cycle just ended (Null when none)
    startJson,  \* jsonDir as it was when main started
    fetches,    \* fetch_page calls that went past the skip test, all runs counted
    cityLinks,      \* links script: what get_city_links returned
    communityLinks, \* links script: community_links of get_community_links
    linksFile,      \* meritage_links.json (NoFile: not there), written by the
                    \* links script, read by main --batch
    exit,           \* links script: how the function that ran last ended
    cityPage,       \* links script: the hrefs of the city-link anchors, as parsed
    regionPages,    \* links script: per city page handled, whether its try block
                    \* ended without error and the hrefs of its card buttons
    planSoup,       \* feature extraction alone: the feature sections of a plan page
    homeplan        \* feature extraction alone: the homeplan after lines 393-427

vars == <<frontier, idx, pc, driver, soup, data, row, jsonDir, htmlDir,
          log, lastCycle, startJson, fetches, cityLinks, communityLinks, linksFile, exit,
          cityPage, regionPages, planSoup, homeplan>>

pageVars == <<frontier, soup, data, row, jsonDir, htmlDir, log, lastCycle, startJson,
              fetches>>
linksVars == <<cityLinks, communityLinks, linksFile, exit, cityPage, regionPages>>
unitVars == <<planSoup, homeplan>>

(* ------------------------------ bounds -------------------------------- *)
MaxFrontier == 2
MaxSites == 1
MaxPlans == 1
MaxAnchors == 2
MaxLis == 9
MaxBlankRows == 1
MaxFetches == 2

Min(a, b) == IF a < b THEN a ELSE b

(* --------------------------- Python values ---------------------------- *)
\* Python's None where a string is expected: a token sequence no string equals
None == <<"None">>
\* Python's None (or a name not yet bound) where a record is expected
Null == [null |-> TRUE]

ORIGIN == <<"http", "s:", "/", "/", "www.meritagehomes.com">>

\* s.startswith('http')
StartsWithHttp(s) == Len(s) >= 1 /\ s[1] = "http"

\* truthiness of an optional string
Truthy(s) == s # None /\ s # <<>>

\* s.split('/')[-1]
RECURSIVE LastSegment(_)
LastSegment(s) ==
    IF s = <<>> THEN <<>>
    ELSE IF s[Len(s)] = "/" THEN <<>>
    ELSE Append(LastSegment(SubSeq(s, 1, Len(s) - 1)), s[Len(s)])

\* f"{output_dir}/json/meritage_{community_name}.json", inside jsonDir
JsonFile(url) == <<"meritage_">> \o LastSegment(url) \o <<".json">>
\* f"{output_dir}/html/meritage_{name}.html", inside htmlDir
HtmlFile(url) == <<"meritage_">> \o LastSegment(url) \o <<".html">>
\* f"{output_dir}/html/meritage_homesite_{site_name}.html"
SiteHtmlFile(url) == <<"meritage_", "homesite_">> \o LastSegment(url) \o <<".html">>

\* os.path.exists
Exists(dir, f) == f \in DOMAIN dir
\* open(f, 'w'); f.write(content)
WriteFile(dir, f, content) ==
    [g \in DOMAIN dir \cup {f} |-> IF g = f THEN content ELSE dir[g]]
\* os.remove
RemoveFile(dir, f) == [g \in DOMAIN dir \ {f} |-> dir[g]]

(* ------------------------------ inputs -------------------------------- *)
CommunityUrls ==
    { ORIGIN \o <<"/", "tx", "/", "oaks">>,
      ORIGIN \o <<"/", "az", "/", "oaks">>,
      ORIGIN \o <<"/", "tx", "/", "glen", "/">> }

RECURSIVE SeqsNoRepeat(_, _)
SeqsNoRepeat(S, n) ==
    IF n = 0 THEN {<<>>}
    ELSE LET shorter == SeqsNoRepeat(S, n - 1)
         IN  shorter \cup { Append(q, x) : q \in { t \in shorter : Len(t) = n - 1 },
                                           x \in S }

\* the sequences over S of length at most n
RECURSIVE SeqsUpTo(_, _)
SeqsUpTo(S, n) ==
    IF n = 0 THEN {<<>>}
    ELSE LET shorter == SeqsUpTo(S, n - 1)
         IN  shorter \cup { Append(q, x) : q \in { t \in shorter : Len(t) = n - 1 },
                                           x \in S }

Distinct(q) == \A i, j \in DOMAIN q : i # j => q[i] # q[j]

\* meritage_links.json is written from list(set(...)): no url repeats; main
\* goes into the loop on a list that is not empty (lines 568-570)
Frontiers ==
    { q \in SeqsNoRepeat(CommunityUrls, MaxFrontier) : Len(q) >= 1 /\ Distinct(q) }

RelImg == <<"/", "img", "/", "a.jpg">>
AbsImg == <<"http", "s:", "/", "/", "cdn", "/", "b.jpg">>
ImgSrcs == {None, RelImg, AbsImg}

\* an anchor that has no href attribute: a['href'] raises KeyError
NoHrefAttr == <<"KeyError">>
\* hrefs of the anchors inside quick-move-in rows (None: no anchor)
SiteHrefs == {None, NoHrefAttr, <<"/", "qmi", "/", "lot1">>}
\* hrefs of the anchors inside floor-plan rows; the plan is named like a community
PlanHrefs == {None, NoHrefAttr, <<"/", "plan", "/", "oaks">>}

\* the qmi-vertical rows of a page, in page order: TRUE for a row that has the
\* content and mid blocks, FALSE for a row that lacks one of them
QmiRows ==
    { q \in SeqsUpTo(BOOLEAN, MaxSites + MaxBlankRows) :
        /\ Cardinality({ i \in DOMAIN q : q[i] }) <= MaxSites
        /\ Cardinality({ i \in DOMAIN q : ~q[i] }) <= MaxBlankRows }

\* the top-level page as far as fetch_page reads it before the rows
TopPages ==
    [overview : {"absent", "noarticle", "ok"},   \* community-detail-overview block
     slide    : ImgSrcs,                          \* src of the first slide's lazy span
     qmi      : QmiRows,                          \* qmi-vertical rows
     nplans   : 0..MaxPlans]                      \* floorplan-vertical rows

(* ------------------------- fetch_page: top level ----------------------- *)
\* lines 156-167: the first slide image
FirstImage(src) ==
    IF Truthy(src)
    THEN IF ~StartsWithHttp(src) THEN <<ORIGIN \o src>> ELSE <<>>
    ELSE <<>>

\* lines 92-124 with the top-level extraction of lines 126-167
NewData(url, page) ==
    [url |-> url, images |-> FirstImage(page.slide),
     homesites |-> <<>>, homeplans |-> <<>>]

\* driver = None (line 66)
NoDriver == "none"

\* driver.quit(): the state of the session after the call
Quit(quitRaises) == IF quitRaises THEN "quit_raised" ELSE "closed"

\* a slip in the finally block: the session is dropped without quit
FinallyNoQuit(d, quitRaises) == d

\* finally: driver.quit() with its exception swallowed (lines 522-527)
Finally(d, quitRaises) ==
    IF d = NoDriver THEN NoDriver ELSE Quit(quitRaises)

\* What a fetch_page call did: outcome is "skipped", "saved" or "error"; fault
\* is the step that raised ("fetch": setup_driver, driver.get or page_source;
\* "assembly"; "cleanup": os.remove inside a handler; "save"); session tells
\* whether setup_driver returned a session, fetched whether driver.get was called
LogEntry(url, outcome, fault, session) ==
    [url |-> url, outcome |-> outcome, fault |-> fault, session |-> session,
     fetched |-> session]

\* except Exception: return None, then finally; back in main's loop (lines 519-527, 578-582)
ReturnNone(url, d, fault, quitRaises) ==
    /\ pc' = "main"
    /\ idx' = idx + 1
    /\ driver' = Finally(d, quitRaises)
    /\ data' = Null
    /\ soup' = Null
    /\ row' = 0
    /\ log' = Append(log, LogEntry(url, "error", fault, d # NoDriver))

\* a slip in the skip test: it looks for the snapshot's name among the outputs
OutputExistsWrongName(dir, url) == Exists(dir, HtmlFile(url))

\* lines 69-73: os.path.exists(json_file)
OutputExists(dir, url) == Exists(dir, JsonFile(url))

\* lines 69-75: the output exists, return None before any session is set up
FetchPageSkip ==
    /\ pc = "main"
    /\ idx <= Len(frontier)
    /\ OutputExists(jsonDir, frontier[idx])
    /\ idx' = idx + 1
    /\ driver' = NoDriver
    /\ data' = Null
    /\ log' = Append(log, LogEntry(frontier[idx], "skipped", "none", FALSE))
    /\ lastCycle' = Null
    /\ UNCHANGED <<frontier, pc, soup, row, jsonDir, htmlDir, startJson, fetches>>
    /\ UNCHANGED <<linksVars, unitVars>>

\* lines 66-167: set up the session, fetch, save the snapshot, start the record
FetchPageTop ==
    /\ pc = "main"
    /\ idx <= Len(frontier)
    /\ ~OutputExists(jsonDir, frontier[idx])
    /\ fetches < MaxFetches
    /\ fetches' = fetches + 1
    /\ lastCycle' = Null
    /\ \E fault \in {"none", "setup", "get", "source"}, quitRaises \in BOOLEAN :
       \E page \in IF fault = "none" THEN TopPages ELSE {CHOOSE pg \in TopPages : TRUE} :
         LET url == frontier[idx] IN
         CASE fault = "setup" ->
                /\ ReturnNone(url, NoDriver, "fetch", FALSE)
                /\ UNCHANGED htmlDir
           [] fault = "get" ->
                /\ ReturnNone(url, "open", "fetch", quitRaises)
                /\ UNCHANGED htmlDir
           [] fault = "source" ->
                /\ ReturnNone(url, "open", "fetch", quitRaises)
                /\ htmlDir' = WriteFile(htmlDir, HtmlFile(url), <<>>)
           [] OTHER ->
                /\ htmlDir' = WriteFile(htmlDir, HtmlFile(url), url)
                /\ IF page.overview = "noarticle"
                   THEN ReturnNone(url, "open", "assembly", quitRaises)
                   ELSE /\ pc' = "rows"
                        /\ driver' = "open"
                        /\ data' = NewData(url, page)
                        /\ soup' = [nsites |-> Len(page.qmi), qmi |-> page.qmi,
                                   nplans |-> page.nplans,
                                   slide |-> page.slide]
                        /\ row' = 1
                        /\ UNCHANGED <<idx, log>>
    /\ UNCHANGED <<frontier, jsonDir, startJson>>
    /\ UNCHANGED <<linksVars, unitVars>>

(* ---------------------- fetch_page: quick-move-in rows ----------------- *)
\* lines 262-263 (and 308-309, 366-367, 374-375): resolve a relative src
NormalizeSrc(src) ==
    IF Truthy(src) /\ ~StartsWithHttp(src) THEN ORIGIN \o src ELSE src

\* a qmi-vertical row: has it content/mid, the href of its h3 anchor, its img src
SiteRows == [mid : BOOLEAN, href : SiteHrefs, img : {None, RelImg}]

\* the placeholder image of a slide that is not loaded yet
LoadingGif == <<"/", "img", "/", "meritageLoadingCommunityHero.gif">>
\* src.endswith('meritageLoadingCommunityHero.gif')
EndsWithLoadingGif(s) ==
    Len(s) >= 1 /\ s[Len(s)] = "meritageLoadingCommunityHero.gif"

\* a slide of the homesite page: data-lazy of its hidden span, src of its orbit image
Slides == { [lazy |-> AbsImg, img |-> None],
            [lazy |-> None, img |-> AbsImg],
            [lazy |-> None, img |-> LoadingGif] }
\* the homesite detail page: has it the article (map link and overview), its slides
SitePages == [article : BOOLEAN, gallery : {<<>>} \cup { <<sl>> : sl \in Slides }]

\* How an enrichment cycle goes: fault is the step of the try block that
\* raises ("none": nowhere; "extract": inside the extraction), rm1 / rm2 tell
\* whether os.remove raises in the try block / in the handler.
CycleFaults ==
    { [fault |-> f, rm1 |-> FALSE, rm2 |-> b] : f \in {"get", "source", "parse"},
                                               b \in BOOLEAN }
    \cup { [fault |-> "none", rm1 |-> FALSE, rm2 |-> FALSE] }
    \cup { [fault |-> "none", rm1 |-> TRUE, rm2 |-> b] : b \in BOOLEAN }

\* lines 239-264: the HomeSite of row number index (0-based)
Homesite(index, r) ==
    [id        |-> index + 1,
     url       |-> IF r.href # None THEN ORIGIN \o r.href ELSE None,
     image_url |-> NormalizeSrc(r.img),
     latitude  |-> None,
     overview  |-> None,
     images    |-> <<>>]

\* lines 303-318: the gallery of a homesite page
RECURSIVE SiteGallery(_)
SiteGallery(slides) ==
    IF slides = <<>> THEN <<>>
    ELSE LET sl == Head(slides)
             here == IF Truthy(sl.lazy) THEN <<NormalizeSrc(sl.lazy)>>
                     ELSE IF Truthy(sl.img) /\ ~StartsWithHttp(sl.img)
                             /\ ~EndsWithLoadingGif(sl.img)
                          THEN <<ORIGIN \o sl.img>>
                          ELSE <<>>
         IN  here \o SiteGallery(Tail(slides))

\* lines 278-320: what the extraction writes into the homesite
SiteExtract(hs, page) ==
    [hs EXCEPT !.latitude = IF page.article THEN <<"33.1">> ELSE None,
               !.overview = IF page.article THEN <<"overview">> ELSE None,
               !.images   = SiteGallery(page.gallery)]

\* The try block and its handler around one detail page (lines 268-332 and
\* 380-486): tmp is the temporary snapshot, src the fetched page source,
\* fault the step of the try block that raises, rm1/rm2 whether os.remove
\* raises in the try block / in the handler.
Cycle(html, tmp, src, fault, rm1, rm2) ==
    LET written  == CASE fault = "get"    -> html
                      [] fault = "source" -> WriteFile(html, tmp, <<>>)
                      [] OTHER            -> WriteFile(html, tmp, src)
        raised   == fault # "none" \/ rm1
        afterTry == IF raised THEN written ELSE RemoveFile(written, tmp)
        retry    == raised /\ Exists(afterTry, tmp)
    IN  [html    |-> IF retry /\ ~rm2 THEN RemoveFile(afterTry, tmp) ELSE afterTry,
         raised  |-> raised,
         escaped |-> retry /\ rm2,
         tmp     |-> tmp,
         fault   |-> fault]

\* the ghost record of an enrichment cycle
CycleNote(kind, c) ==
    [kind |-> kind, tmp |-> c.tmp, failed |-> c.fault # "none", raised |-> c.raised,
     escaped |-> c.escaped]

\* lines 231-335: one quick-move-in row
HomesiteRow ==
    /\ pc = "rows"
    /\ row <= soup.nsites
    /\ \E r \in { sr \in SiteRows : sr.mid = soup.qmi[row] } :
         LET hs == Homesite(row - 1, r) IN
         IF ~r.mid
         THEN /\ row' = row + 1
              /\ lastCycle' = Null
              /\ UNCHANGED <<pc, idx, driver, data, soup, log, htmlDir>>
         ELSE IF r.href = NoHrefAttr
         THEN /\ lastCycle' = Null
              /\ UNCHANGED htmlDir
              /\ \E quitRaises \in BOOLEAN :
                    ReturnNone(data.url, driver, "assembly", quitRaises)
         ELSE IF hs.url = None
         THEN /\ row' = row + 1
              /\ data' = [data EXCEPT !.homesites = Append(@, hs)]
              /\ lastCycle' = Null
              /\ UNCHANGED <<pc, idx, driver, soup, log, htmlDir>>
         ELSE \E f \in CycleFaults :
              \E page \in IF f.fault = "none" THEN SitePages ELSE {CHOOSE pg \in SitePages : TRUE} :
              LET c == Cycle(htmlDir, SiteHtmlFile(hs.url), hs.url, f.fault, f.rm1, f.rm2)
                  site == IF f.fault = "none" THEN SiteExtract(hs, page) ELSE hs
              IN  /\ htmlDir' = c.html
                  /\ lastCycle' = CycleNote("site", c)
                  /\ IF c.escaped
                     THEN \E quitRaises \in BOOLEAN :
                            ReturnNone(data.url, driver, "cleanup", quitRaises)
                     ELSE /\ row' = row + 1
                          /\ data' = [data EXCEPT !.homesites = Append(@, site)]
                          /\ UNCHANGED <<pc, idx, driver, soup, log>>
    /\ UNCHANGED <<frontier, jsonDir, startJson, fetches>>
    /\ UNCHANGED <<linksVars, unitVars>>

(* ------------------------ fetch_page: floor-plan rows ------------------ *)
\* lines 402-405: total_features, over the sections that hold a ul
RECURSIVE TotalFeatures(_)
TotalFeatures(sections) ==
    IF sections = <<>> THEN 0
    ELSE (IF Head(sections).ul THEN Len(Head(sections).lis) ELSE 0)
         + TotalFeatures(Tail(sections))

\* line 408
FeaturesPerSection(total) == IF total > 0 THEN total \div 4 ELSE 0

\* lines 414-417: the li elements in page order
RECURSIVE AllLis(_)
AllLis(sections) ==
    IF sections = <<>> THEN <<>>
    ELSE (IF Head(sections).ul THEN Head(sections).lis ELSE <<>>)
         \o AllLis(Tail(sections))

\* a slip in the update: no advance while the per-section limit is zero
NextSectionGuarded(current, count, per) ==
    IF per > 0 /\ count >= (current + 1) * per THEN Min(current + 1, 3) ELSE current

\* line 426-427: current_section after a feature was emitted
NextSection(current, count, per) ==
    IF count >= (current + 1) * per THEN Min(current + 1, 3) ELSE current

\* lines 417-427: the loop over the li texts ("" is a blank li)
RECURSIVE AssignSections(_, _, _, _)
AssignSections(lis, per, current, count) ==
    IF lis = <<>> THEN <<>>
    ELSE IF Head(lis) # ""
    THEN <<[description |-> Head(lis), section_index |-> current]>>
         \o AssignSections(Tail(lis), per, NextSection(current, count + 1, per), count + 1)
    ELSE AssignSections(Tail(lis), per, current, count)

\* lines 393-427
IncludedFeatures(sections) ==
    AssignSections(AllLis(sections), FeaturesPerSection(TotalFeatures(sections)), 0, 0)

\* lines 451-458
FloorName(i) ==
    CASE i = 1 -> "1st Floor Floorplan"
      [] i = 2 -> "2nd Floor Floorplan"
      [] i = 3 -> "3rd Floor Floorplan"
      [] OTHER -> ToString(i) \o "th Floor Floorplan"

\* int(span.text.strip()) of line 448, on a stripped text given as the
\* sequence of its characters (a character outside ASCII is named by its code
\* point, "U+0663"): an optional sign, then decimal digits with single
\* underscores allowed between them, at most IntMaxStrDigits digits; any other
\* text raises ValueError.
\* The decimal digits (Unicode 15 category Nd, the table of the Python 3.12
\* that the f-strings of lines 245-247 need), each run listed from zero to nine
NdBlocks ==
    {
      <<"0", "1", "2", "3", "4", "5", "6", "7", "8", "9">>,
      <<"U+0660", "U+0661", "U+0662", "U+0663", "U+0664", "U+0665", "U+0666", "U+0667", "U+0668", "U+0669">>,
      <<"U+06F0", "U+06F1", "U+06F2", "U+06F3", "U+06F4", "U+06F5", "U+06F6", "U+06F7", "U+06F8", "U+06F9">>,
      <<"U+07C0", "U+07C1", "U+07C2", "U+07C3", "U+07C4", "U+07C5", "U+07C6", "U+07C7", "U+07C8", "U+07C9">>,
      <<"U+0966", "U+0967", "U+0968", "U+0969", "U+096A", "U+096B", "U+096C", "U+096D", "U+096E", "U+096F">>,
      <<"U+09E6", "U+09E7", "U+09E8", "U+09E9", "U+09EA", "U+09EB", "U+09EC", "U+09ED", "U+09EE", "U+09EF">>,
      <<"U+0A66", "U+0A67", "U+0A68", "U+0A69", "U+0A6A", "U+0A6B", "U+0A6C", "U+0A6D", "U+0A6E", "U+0A6F">>,
      <<"U+0AE6", "U+0AE7", "U+0AE8", "U+0AE9", "U+0AEA", "U+0AEB", "U+0AEC", "U+0AED", "U+0AEE", "U+0AEF">>,
      <<"U+0B66", "U+0B67", "U+0B68", "U+0B69", "U+0B6A", "U+0B6B", "U+0B6C", "U+0B6D", "U+0B6E", "U+0B6F">>,
      <<"U+0BE6", "U+0BE7", "U+0BE8", "U+0BE9", "U+0BEA", "U+0BEB", "U+0BEC", "U+0BED", "U+0BEE", "U+0BEF">>,
      <<"U+0C66", "U+0C67", "U+0C68", "U+0C69", "U+0C6A", "U+0C6B", "U+0C6C", "U+0C6D", "U+0C6E", "U+0C6F">>,
      <<"U+0CE6", "U+0CE7", "U+0CE8", "U+0CE9", "U+0CEA", "U+0CEB", "U+0CEC", "U+0CED", "U+0CEE", "U+0CEF">>,
      <<"U+0D66", "U+0D67", "U+0D68", "U+0D69", "U+0D6A", "U+0D6B", "U+0D6C", "U+0D6D", "U+0D6E", "U+0D6F">>,
      <<"U+0DE6", "U+0DE7", "U+0DE8", "U+0DE9", "U+0DEA", "U+0DEB", "U+0DEC", "U+0DED", "U+0DEE", "U+0DEF">>,
      <<"U+0E50", "U+0E51", "U+0E52", "U+0E53", "U+0E54", "U+0E55", "U+0E56", "U+0E57", "U+0E58", "U+0E59">>,
      <<"U+0ED0", "U+0ED1", "U+0ED2", "U+0ED3", "U+0ED4", "U+0ED5", "U+0ED6", "U+0ED7", "U+0ED8", "U+0ED9">>,
      <<"U+0F20", "U+0F21", "U+0F22", "U+0F23", "U+0F24", "U+0F25", "U+0F26", "U+0F27", "U+0F28", "U+0F29">>,
      <<"U+1040", "U+1041", "U+1042", "U+1043", "U+1044", "U+1045", "U+1046", "U+1047", "U+1048", "U+1049">>,
      <<"U+1090", "U+1091", "U+1092", "U+1093", "U+1094", "U+1095", "U+1096", "U+1097", "U+1098", "U+1099">>,
      <<"U+17E0", "U+17E1", "U+17E2", "U+17E3", "U+17E4", "U+17E5", "U+17E6", "U+17E7", "U+17E8", "U+17E9">>,
      <<"U+1810", "U+1811", "U+1812", "U+1813", "U+1814", "U+1815", "U+1816", "U+1817", "U+1818", "U+1819">>,
      <<"U+1946", "U+1947", "U+1948", "U+1949", "U+194A", "U+194B", "U+194C", "U+194D", "U+194E", "U+194F">>,
      <<"U+19D0", "U+19D1", "U+19D2", "U+19D3", "U+19D4", "U+19D5", "U+19D6", "U+19D7", "U+19D8", "U+19D9">>,
      <<"U+1A80", "U+1A81", "U+1A82", "U+1A83", "U+1A84", "U+1A85", "U+1A86", "U+1A87", "U+1A88", "U+1A89">>,
      <<"U+1A90", "U+1A91", "U+1A92", "U+1A93", "U+1A94", "U+1A95", "U+1A96", "U+1A97", "U+1A98", "U+1A99">>,
      <<"U+1B50", "U+1B51", "U+1B52", "U+1B53", "U+1B54", "U+1B55", "U+1B56", "U+1B57", "U+1B58", "U+1B59">>,
      <<"U+1BB0", "U+1BB1", "U+1BB2", "U+1BB3", "U+1BB4", "U+1BB5", "U+1BB6", "U+1BB7", "U+1BB8", "U+1BB9">>,
      <<"U+1C40", "U+1C41", "U+1C42", "U+1C43", "U+1C44", "U+1C45", "U+1C46", "U+1C47", "U+1C48", "U+1C49">>,
      <<"U+1C50", "U+1C51", "U+1C52", "U+1C53", "U+1C54", "U+1C55", "U+1C56", "U+1C57", "U+1C58", "U+1C59">>,
      <<"U+A620", "U+A621", "U+A622", "U+A623", "U+A624", "U+A625", "U+A626", "U+A627", "U+A628", "U+A629">>,
      <<"U+A8D0", "U+A8D1", "U+A8D2", "U+A8D3", "U+A8D4", "U+A8D5", "U+A8D6", "U+A8D7", "U+A8D8", "U+A8D9">>,
      <<"U+A900", "U+A901", "U+A902", "U+A903", "U+A904", "U+A905", "U+A906", "U+A907", "U+A908", "U+A909">>,
      <<"U+A9D0", "U+A9D1", "U+A9D2", "U+A9D3", "U+A9D4", "U+A9D5", "U+A9D6", "U+A9D7", "U+A9D8", "U+A9D9">>,
      <<"U+A9F0", "U+A9F1", "U+A9F2", "U+A9F3", "U+A9F4", "U+A9F5", "U+A9F6", "U+A9F7", "U+A9F8", "U+A9F9">>,
      <<"U+AA50", "U+AA51", "U+AA52", "U+AA53", "U+AA54", "U+AA55", "U+AA56", "U+AA57", "U+AA58", "U+AA59">>,
      <<"U+ABF0", "U+ABF1", "U+ABF2", "U+ABF3", "U+ABF4", "U+ABF5", "U+ABF6", "U+ABF7", "U+ABF8", "U+ABF9">>,
      <<"U+FF10", "U+FF11", "U+FF12", "U+FF13", "U+FF14", "U+FF15", "U+FF16", "U+FF17", "U+FF18", "U+FF19">>,
      <<"U+104A0", "U+104A1", "U+104A2", "U+104A3", "U+104A4", "U+104A5", "U+104A6", "U+104A7", "U+104A8", "U+104A9">>,
      <<"U+10D30", "U+10D31", "U+10D32", "U+10D33", "U+10D34", "U+10D35", "U+10D36", "U+10D37", "U+10D38", "U+10D39">>,
      <<"U+11066", "U+11067", "U+11068", "U+11069", "U+1106A", "U+1106B", "U+1106C", "U+1106D", "U+1106E", "U+1106F">>,
      <<"U+110F0", "U+110F1", "U+110F2", "U+110F3", "U+110F4", "U+110F5", "U+110F6", "U+110F7", "U+110F8", "U+110F9">>,
      <<"U+11136", "U+11137", "U+11138", "U+11139", "U+1113A", "U+1113B", "U+1113C", "U+1113D", "U+1113E", "U+1113F">>,
      <<"U+111D0", "U+111D1", "U+111D2", "U+111D3", "U+111D4", "U+111D5", "U+111D6", "U+111D7", "U+111D8", "U+111D9">>,
      <<"U+112F0", "U+112F1", "U+112F2", "U+112F3", "U+112F4", "U+112F5", "U+112F6", "U+112F7", "U+112F8", "U+112F9">>,
      <<"U+11450", "U+11451", "U+11452", "U+11453", "U+11454", "U+11455", "U+11456", "U+11457", "U+11458", "U+11459">>,
      <<"U+114D0", "U+114D1", "U+114D2", "U+114D3", "U+114D4", "U+114D5", "U+114D6", "U+114D7", "U+114D8", "U+114D9">>,
      <<"U+11650", "U+11651", "U+11652", "U+11653", "U+11654", "U+11655", "U+11656", "U+11657", "U+11658", "U+11659">>,
      <<"U+116C0", "U+116C1", "U+116C2", "U+116C3", "U+116C4", "U+116C5", "U+116C6", "U+116C7", "U+116C8", "U+116C9">>,
      <<"U+11730", "U+11731", "U+11732", "U+11733", "U+11734", "U+11735", "U+11736", "U+11737", "U+11738", "U+11739">>,
      <<"U+118E0", "U+118E1", "U+118E2", "U+118E3", "U+118E4", "U+118E5", "U+118E6", "U+118E7", "U+118E8", "U+118E9">>,
      <<"U+11950", "U+11951", "U+11952", "U+11953", "U+11954", "U+11955", "U+11956", "U+11957", "U+11958", "U+11959">>,
      <<"U+11C50", "U+11C51", "U+11C52", "U+11C53", "U+11C54", "U+11C55", "U+11C56", "U+11C57", "U+11C58", "U+11C59">>,
      <<"U+11D50", "U+11D51", "U+11D52", "U+11D53", "U+11D54", "U+11D55", "U+11D56", "U+11D57", "U+11D58", "U+11D59">>,
      <<"U+11DA0", "U+11DA1", "U+11DA2", "U+11DA3", "U+11DA4", "U+11DA5", "U+11DA6", "U+11DA7", "U+11DA8", "U+11DA9">>,
      <<"U+11F50", "U+11F51", "U+11F52", "U+11F53", "U+11F54", "U+11F55", "U+11F56", "U+11F57", "U+11F58", "U+11F59">>,
      <<"U+16A60", "U+16A61", "U+16A62", "U+16A63", "U+16A64", "U+16A65", "U+16A66", "U+16A67", "U+16A68", "U+16A69">>,
      <<"U+16AC0", "U+16AC1", "U+16AC2", "U+16AC3", "U+16AC4", "U+16AC5", "U+16AC6", "U+16AC7", "U+16AC8", "U+16AC9">>,
      <<"U+16B50", "U+16B51", "U+16B52", "U+16B53", "U+16B54", "U+16B55", "U+16B56", "U+16B57", "U+16B58", "U+16B59">>,
      <<"U+1D7CE", "U+1D7CF", "U+1D7D0", "U+1D7D1", "U+1D7D2", "U+1D7D3", "U+1D7D4", "U+1D7D5", "U+1D7D6", "U+1D7D7">>,
      <<"U+1D7D8", "U+1D7D9", "U+1D7DA", "U+1D7DB", "U+1D7DC", "U+1D7DD", "U+1D7DE", "U+1D7DF", "U+1D7E0", "U+1D7E1">>,
      <<"U+1D7E2", "U+1D7E3", "U+1D7E4", "U+1D7E5", "U+1D7E6", "U+1D7E7", "U+1D7E8", "U+1D7E9", "U+1D7EA", "U+1D7EB">>,
      <<"U+1D7EC", "U+1D7ED", "U+1D7EE", "U+1D7EF", "U+1D7F0", "U+1D7F1", "U+1D7F2", "U+1D7F3", "U+1D7F4", "U+1D7F5">>,
      <<"U+1D7F6", "U+1D7F7", "U+1D7F8", "U+1D7F9", "U+1D7FA", "U+1D7FB", "U+1D7FC", "U+1D7FD", "U+1D7FE", "U+1D7FF">>,
      <<"U+1E140", "U+1E141", "U+1E142", "U+1E143", "U+1E144", "U+1E145", "U+1E146", "U+1E147", "U+1E148", "U+1E149">>,
      <<"U+1E2F0", "U+1E2F1", "U+1E2F2", "U+1E2F3", "U+1E2F4", "U+1E2F5", "U+1E2F6", "U+1E2F7", "U+1E2F8", "U+1E2F9">>,
      <<"U+1E4F0", "U+1E4F1", "U+1E4F2", "U+1E4F3", "U+1E4F4", "U+1E4F5", "U+1E4F6", "U+1E4F7", "U+1E4F8", "U+1E4F9">>,
      <<"U+1E950", "U+1E951", "U+1E952", "U+1E953", "U+1E954", "U+1E955", "U+1E956", "U+1E957", "U+1E958", "U+1E959">>,
      <<"U+1FBF0", "U+1FBF1", "U+1FBF2", "U+1FBF3", "U+1FBF4", "U+1FBF5", "U+1FBF6", "U+1FBF7", "U+1FBF8", "U+1FBF9">>
    }
Digits == UNION { { b[i] : i \in 1..10 } : b \in NdBlocks }
DigitValue(c) ==
    LET b == CHOOSE nb \in NdBlocks : \E i \in 1..10 : nb[i] = c
    IN  (CHOOSE i \in 1..10 : b[i] = c) - 1
\* sys.get_int_max_str_digits(): longer digit strings raise ValueError
IntMaxStrDigits == 4300
HasSign(text) == text # <<>> /\ text[1] \in {"+", "-"}
Unsigned(text) == IF HasSign(text) THEN Tail(text) ELSE text
IsIntText(text) ==
    LET u == Unsigned(text) IN
    /\ text # None
    /\ u # <<>>
    /\ \A i \in DOMAIN u : u[i] \in Digits \cup {"_"}
    /\ u[1] # "_" /\ u[Len(u)] # "_"
    /\ \A i \in 1..(Len(u) - 1) : ~(u[i] = "_" /\ u[i + 1] = "_")
    /\ Cardinality({ i \in DOMAIN u : u[i] # "_" }) <= IntMaxStrDigits
RECURSIVE NatOf(_)
NatOf(u) ==
    IF u = <<>> THEN 0
    ELSE IF u[Len(u)] = "_" THEN NatOf(SubSeq(u, 1, Len(u) - 1))
    ELSE 10 * NatOf(SubSeq(u, 1, Len(u) - 1)) + DigitValue(u[Len(u)])
IntOf(text) ==
    IF text[1] = "-" THEN 0 - NatOf(Unsigned(text)) ELSE NatOf(Unsigned(text))

\* lines 441-474: stories is the text of the Stories column (None: no such
\* column); tabs tells what the page holds of tabs-content: "absent",
\* "nopanel" (no tabs-panel inside), "noimg", or "img" (an img with src tabSrc)
FloorplanRaises(stories, tabs) ==
    IsIntText(stories) /\ IntOf(stories) >= 1 /\ tabs = "nopanel"

FloorplanImages(stories, tabs, tabSrc) ==
    IF IsIntText(stories) /\ tabs = "img" /\ Truthy(tabSrc)
    THEN [i \in 1..IntOf(stories) |-> [name |-> FloorName(i), image_url |-> tabSrc]]
    ELSE <<>>

\* a feature section of a plan page
Section(lis) == [ul |-> TRUE, lis |-> lis]
NoUl == [ul |-> FALSE, lis |-> <<>>]

\* the feature sections of the plan pages the pipeline meets
PlanSections ==
    { <<>>, <<Section(<<"a">>), NoUl, Section(<<"b", "", "c", "d">>)>> }

\* the plan detail pages the pipeline meets: sections, half (a Half Bathrooms
\* column), stories (text of the Stories column), tabs and tabSrc
PlanPage(sections, half, stories, tabs) ==
    [sections |-> sections, half |-> half, stories |-> stories, tabs |-> tabs,
     tabSrc |-> RelImg]
PlanPages ==
    { PlanPage(<<>>, FALSE, None, "absent"),
      PlanPage(<<>>, FALSE, <<"1">>, "img"),
      PlanPage(<<>>, TRUE, <<"n", "/", "a">>, "img"),
      PlanPage(<<>>, FALSE, <<"1">>, "noimg") }
    \cup { PlanPage(sec, TRUE, <<"1">>, "nopanel") : sec \in PlanSections }

\* a floorplan-vertical row: href of its h3 anchor, src of its image
PlanImg == <<"/", "img", "/", "p.jpg">>
\* lazy: the script[type=text/lazyload] of its image block ("absent": the src
\* is that of the img tag; "body": the src is that of the img in the script's
\* text; "empty": the script has no text, its .string is None)
PlanRows == [href : PlanHrefs, img : {None, PlanImg}, lazy : {"absent", "body", "empty"}]
\* lines 342 and 363: building the row's dict raises (KeyError, TypeError)
PlanRowRaises(r) == r.href = NoHrefAttr \/ r.lazy = "empty"

\* lines 340-376
Homeplan(r) ==
    [url               |-> IF r.href # None THEN ORIGIN \o r.href ELSE None,
     image_url         |-> NormalizeSrc(r.img),
     half_baths        |-> None,
     floorplan_images  |-> <<>>,
     includedFeatures  |-> <<>>]

\* lines 393-474, up to the step that raises (fault, or the missing tabs-panel)
PlanExtract(hp, page, fault) ==
    IF fault # "none" THEN hp
    ELSE [hp EXCEPT !.includedFeatures = IncludedFeatures(page.sections),
                    !.half_baths = IF page.half THEN <<"1">> ELSE None,
                    !.floorplan_images =
                        IF FloorplanRaises(page.stories, page.tabs) THEN <<>>
                        ELSE FloorplanImages(page.stories, page.tabs, page.tabSrc)]

\* lines 338-489: one floor-plan row
HomeplanRow ==
    /\ pc = "rows"
    /\ row > soup.nsites
    /\ row <= soup.nsites + soup.nplans
    /\ \E r \in PlanRows :
         LET hp == Homeplan(r) IN
         IF PlanRowRaises(r)
         THEN /\ lastCycle' = Null
              /\ UNCHANGED htmlDir
              /\ \E quitRaises \in BOOLEAN :
                    ReturnNone(data.url, driver, "assembly", quitRaises)
         ELSE IF hp.url = None
         THEN /\ row' = row + 1
              /\ data' = [data EXCEPT !.homeplans = Append(@, hp)]
              /\ lastCycle' = Null
              /\ UNCHANGED <<pc, idx, driver, soup, log, htmlDir>>
         ELSE \E f \in CycleFaults :
              \E page \in IF f.fault = "none" THEN PlanPages ELSE {CHOOSE pg \in PlanPages : TRUE} :
              LET step == IF f.fault = "none" /\ FloorplanRaises(page.stories, page.tabs)
                          THEN "extract" ELSE f.fault
                  c == Cycle(htmlDir, HtmlFile(hp.url), hp.url, step, f.rm1, f.rm2)
                  plan == PlanExtract(hp, page, f.fault)
              IN  /\ htmlDir' = c.html
                  /\ lastCycle' = CycleNote("plan", c)
                  /\ IF c.escaped
                     THEN \E quitRaises \in BOOLEAN :
                            ReturnNone(data.url, driver, "cleanup", quitRaises)
                     ELSE /\ row' = row + 1
                          /\ data' = [data EXCEPT !.homeplans = Append(@, plan)]
                          /\ UNCHANGED <<pc, idx, driver, soup, log>>
    /\ UNCHANGED <<frontier, jsonDir, startJson, fetches>>
    /\ UNCHANGED <<linksVars, unitVars>>

(* --------------------- fetch_page: fallback image, save ---------------- *)
RECURSIVE PlanImages(_)
PlanImages(plans) ==
    IF plans = <<>> THEN <<>>
    ELSE (IF Truthy(Head(plans).image_url) THEN <<Head(plans).image_url>> ELSE <<>>)
         \o PlanImages(Tail(plans))

RECURSIVE SiteImages(_)
SiteImages(sites) ==
    IF sites = <<>> THEN <<>>
    ELSE (IF Truthy(Head(sites).image_url) THEN <<Head(sites).image_url>> ELSE <<>>)
         \o Head(sites).images
         \o SiteImages(Tail(sites))

\* lines 493-505
AvailableImages(d) == PlanImages(d.homeplans) \o SiteImages(d.homesites)

Range(q) == { q[i] : i \in DOMAIN q }

\* a slip in the fallback: every available image is taken, none is chosen
FallbackImagesAll(d) ==
    IF d.images # <<>> THEN {d.images} ELSE {AvailableImages(d)}

\* lines 492-510: the values the images list can take (random.choice)
FallbackImages(d) ==
    IF d.images # <<>> THEN {d.images}
    ELSE IF AvailableImages(d) # <<>>
         THEN { <<img>> : img \in Range(AvailableImages(d)) }
         ELSE {<<>>}

\* lines 513-514: the JSON document on disk; complete is FALSE when json.dump
\* raised after open(json_file, 'w') had created the file
\* (kept of the record: the url and the images list)
Document(d, complete) ==
    IF complete THEN [complete |-> TRUE, url |-> d.url, images |-> d.images]
    ELSE [complete |-> FALSE, url |-> None, images |-> <<>>]

\* lines 491-527: fallback image, save the JSON document, return, quit
SaveRecord ==
    /\ pc = "rows"
    /\ row > soup.nsites + soup.nplans
    /\ lastCycle' = Null
    /\ \E images \in FallbackImages(data), fault \in {"none", "open", "dump"},
          quitRaises \in BOOLEAN :
         LET final == [data EXCEPT !.images = images]
             file  == JsonFile(data.url)
         IN  CASE fault = "open" ->
                    /\ ReturnNone(data.url, driver, "save", quitRaises)
                    /\ UNCHANGED jsonDir
               [] fault = "dump" ->
                    /\ ReturnNone(data.url, driver, "save", quitRaises)
                    /\ jsonDir' = WriteFile(jsonDir, file, Document(final, FALSE))
               [] OTHER ->
                    /\ jsonDir' = WriteFile(jsonDir, file, Document(final, TRUE))
                    /\ data' = final
                    /\ driver' = Finally(driver, quitRaises)
                    /\ pc' = "main"
                    /\ idx' = idx + 1
                    /\ soup' = Null
                    /\ row' = 0
                    /\ log' = Append(log, LogEntry(data.url, "saved", "none", TRUE))
    /\ UNCHANGED <<frontier, htmlDir, startJson, fetches>>
    /\ UNCHANGED <<linksVars, unitVars>>

(* ------------------------------- main ---------------------------------- *)
EmptyDir == [f \in {} |-> None]

\* meritage_links.json: not there, or what lines 141-142 left of it; complete
\* is FALSE when json.dump raised after open(.., 'w') had created the file
NoFile == Null
LinksDocument(links, complete) ==
    IF complete THEN [complete |-> TRUE, links |-> links]
    ELSE [complete |-> FALSE, links |-> <<>>]
\* a link an earlier run found, no longer on the site
OldLink == ORIGIN \o <<"/", "state", "/", "old", "/", "elm">>
\* meritage_links.json when the links script starts: not there, or what an
\* earlier run left (the script never reads it)
EarlierLinksFiles ==
    {NoFile, LinksDocument(<<>>, FALSE), LinksDocument(<<OldLink>>, TRUE)}

\* main --batch starts on the frontier for the first time: the output
\* directories were just created (lines 539-541); what later runs start on is
\* what the runs before them left (MainStart)
Init ==
    /\ frontier \in Frontiers
    /\ idx = 1
    /\ pc = "main"
    /\ driver = NoDriver
    /\ soup = Null
    /\ data = Null
    /\ row = 0
    /\ jsonDir = EmptyDir
    /\ htmlDir = EmptyDir
    /\ log = <<>>
    /\ lastCycle = Null
    /\ startJson = EmptyDir
    /\ fetches = 0
    /\ cityLinks = <<>>
    /\ communityLinks = <<>>
    /\ linksFile = LinksDocument(frontier, TRUE)
    /\ exit = "none"
    /\ cityPage = <<>>
    /\ regionPages = <<>>
    /\ planSoup = <<>>
    /\ homeplan = Null

\* main --batch is started again once a run is over, the links file being the
\* same (lines 529-575): the loop starts over on the outputs as they are
MainStart ==
    /\ pc = "main"
    /\ idx > Len(frontier)
    /\ idx' = 1
    /\ driver' = NoDriver
    /\ data' = Null
    /\ log' = <<>>
    /\ lastCycle' = Null
    /\ startJson' = jsonDir
    /\ UNCHANGED <<frontier, pc, soup, row, jsonDir, htmlDir, fetches>>
    /\ UNCHANGED <<linksVars, unitVars>>

Next ==
    \/ MainStart
    \/ FetchPageSkip
    \/ FetchPageTop
    \/ HomesiteRow
    \/ HomeplanRow
    \/ SaveRecord

\* get_meritage_page.py --batch
Spec == Init /\ [][Next]_vars

(* ===================== get_meritage_api_links.py ======================= *)
\* href of the city-link anchors of the listing page (None: no href attribute)
CityHrefs == {None, <<"/", "state", "/", "tx">>, ORIGIN \o <<"/", "state", "/", "az">>}
\* href of the button--blue--solid anchors inside community-horizontal cards
CommunityHrefs ==
    {None, <<"/", "state", "/", "tx", "/", "oaks">>,
     <<"/", "state", "/", "tx", "/", "glen">>,
     ORIGIN \o <<"/", "state", "/", "az", "/", "oaks">>}

\* a slip in the loop: every normalized href is appended
RECURSIVE CollectLinksNoTest(_, _)
CollectLinksNoTest(hrefs, links) ==
    IF hrefs = <<>> THEN links
    ELSE IF Truthy(Head(hrefs))
         THEN CollectLinksNoTest(Tail(hrefs),
                  Append(links, IF ~StartsWithHttp(Head(hrefs)) THEN ORIGIN \o Head(hrefs)
                                ELSE Head(hrefs)))
         ELSE CollectLinksNoTest(Tail(hrefs), links)

\* lines 59-66 and 102-109: normalize each href, append it if it is new
RECURSIVE CollectLinks(_, _)
CollectLinks(hrefs, links) ==
    IF hrefs = <<>> THEN links
    ELSE LET href == Head(hrefs)
             abs  == IF ~StartsWithHttp(href) THEN ORIGIN \o href ELSE href
         IN  IF Truthy(href)
             THEN CollectLinks(Tail(hrefs),
                               IF abs \in Range(links) THEN links ELSE Append(links, abs))
             ELSE CollectLinks(Tail(hrefs), links)

\* list(set(community_links)) of line 115: the set in some order
ListOfSet(links) ==
    { q \in SeqsNoRepeat(Range(links), Cardinality(Range(links))) :
        Len(q) = Cardinality(Range(links)) /\ Distinct(q) }

\* main's except (lines 145-146): the script ends, the file not written
MainCatches(how) ==
    /\ pc' = "exit"
    /\ exit' = how

\* get_city_links (lines 36-75) and main's lines 125-130
GetCityLinks ==
    /\ pc = "city"
    /\ \E setupRaises \in BOOLEAN :
         IF setupRaises
         THEN /\ MainCatches("setup_raised")
              /\ UNCHANGED <<driver, cityLinks, cityPage>>
         ELSE \E fault \in {"none", "get", "source"}, quitRaises \in BOOLEAN :
              \E hrefs \in IF fault = "none" THEN SeqsUpTo(CityHrefs, MaxAnchors) ELSE {<<>>} :
              LET result == IF fault = "none" THEN CollectLinks(hrefs, <<>>) ELSE <<>> IN
              /\ driver' = Quit(quitRaises)
              /\ cityPage' = hrefs
              /\ IF quitRaises
                 THEN /\ MainCatches("quit_raised")
                      /\ UNCHANGED cityLinks
                 ELSE /\ cityLinks' = result
                      /\ exit' = "returned"
                      /\ pc' = IF result = <<>> THEN "exit" ELSE "community"
    /\ UNCHANGED <<idx, communityLinks, linksFile, regionPages>>
    /\ UNCHANGED <<pageVars, unitVars>>

\* get_community_links, lines 79-80: the session and the empty list
CommunitySetup ==
    /\ pc = "community"
    /\ \E setupRaises \in BOOLEAN :
         IF setupRaises
         THEN /\ MainCatches("setup_raised")
              /\ UNCHANGED <<driver, idx, communityLinks>>
         ELSE /\ driver' = "open"
              /\ communityLinks' = <<>>
              /\ idx' = 1
              /\ pc' = "regions"
              /\ exit' = "none"
    /\ UNCHANGED <<cityLinks, linksFile, cityPage, regionPages>>
    /\ UNCHANGED <<pageVars, unitVars>>

\* a slip in the inner handler: the list is reset when a region fails
RegionLinksReset(fault, hrefs, links) ==
    IF fault = "none" THEN CollectLinks(hrefs, links) ELSE <<>>

\* lines 85-113: community_links after one pass of the loop; fault is the step
\* of the inner try block that raises (driver.get, page_source), before any
\* anchor of the page is read
RegionLinks(fault, hrefs, links) ==
    IF fault = "none" THEN CollectLinks(hrefs, links) ELSE links

\* get_community_links, lines 83-113: one city page
RegionPage ==
    /\ pc = "regions"
    /\ idx <= Len(cityLinks)
    /\ \E fault \in {"none", "get", "source"} :
       \E hrefs \in IF fault = "none" THEN SeqsUpTo(CommunityHrefs, MaxAnchors) ELSE {<<>>} :
         /\ communityLinks' = RegionLinks(fault, hrefs, communityLinks)
         /\ regionPages' = Append(regionPages, [url |-> cityLinks[idx], ok |-> fault = "none",
                                                hrefs |-> hrefs])
    /\ idx' = idx + 1
    /\ UNCHANGED <<pc, driver, cityLinks, linksFile, exit, cityPage>>
    /\ UNCHANGED <<pageVars, unitVars>>

\* get_community_links, lines 115-120, and main's lines 134-143
CommunityReturn ==
    /\ pc = "regions"
    /\ idx > Len(cityLinks)
    /\ \E result \in ListOfSet(communityLinks), quitRaises \in BOOLEAN,
          write \in {"none", "open", "dump"} :
         /\ driver' = Quit(quitRaises)
         /\ IF quitRaises
            THEN /\ MainCatches("quit_raised")
                 /\ UNCHANGED <<linksFile, communityLinks>>
            ELSE /\ communityLinks' = result
                 /\ IF result = <<>>
                    THEN /\ pc' = "exit"
                         /\ exit' = "returned"
                         /\ UNCHANGED linksFile
                    ELSE CASE write = "open" ->
                                /\ MainCatches("write_raised")
                                /\ UNCHANGED linksFile
                           [] write = "dump" ->
                                /\ MainCatches("write_raised")
                                /\ linksFile' = LinksDocument(result, FALSE)
                           [] OTHER ->
                                /\ pc' = "exit"
                                /\ exit' = "returned"
                                /\ linksFile' = LinksDocument(result, TRUE)
    /\ UNCHANGED <<idx, cityLinks, cityPage, regionPages>>
    /\ UNCHANGED <<pageVars, unitVars>>

\* the links script starts, whatever an earlier run left of its file
InitLinks ==
    /\ pc = "city"
    /\ idx = 0
    /\ driver = NoDriver
    /\ frontier = <<>>
    /\ soup = Null
    /\ data = Null
    /\ row = 0
    /\ jsonDir = EmptyDir
    /\ htmlDir = EmptyDir
    /\ log = <<>>
    /\ lastCycle = Null
    /\ startJson = EmptyDir
    /\ fetches = 0
    /\ cityLinks = <<>>
    /\ communityLinks = <<>>
    /\ linksFile \in EarlierLinksFiles
    /\ exit = "none"
    /\ cityPage = <<>>
    /\ regionPages = <<>>
    /\ planSoup = <<>>
    /\ homeplan = Null

NextLinks ==
    \/ GetCityLinks
    \/ CommunitySetup
    \/ RegionPage
    \/ CommunityReturn

\* get_meritage_api_links.py
SpecLinks == InitLinks /\ [][NextLinks]_vars

\* either script
SpecBoth == (Init \/ InitLinks) /\ [][Next \/ NextLinks]_vars

(* ============ the feature extraction of one plan page, alone ============ *)
\* the li texts of a plan page: blank or not, up to MaxLis of them
LiTexts == SeqsUpTo({"", "a"}, MaxLis)

\* the same li elements in one section, or in two with a ul-less one between
FeaturePages ==
    { <<Section(lis)>> : lis \in LiTexts }
    \cup { <<Section(SubSeq(lis, 1, Len(lis) \div 2)), NoUl,
             Section(SubSeq(lis, Len(lis) \div 2 + 1, Len(lis)))>> : lis \in LiTexts }

InitFeatures ==
    /\ pc = "plan"
    /\ planSoup \in FeaturePages
    /\ homeplan = Null
    /\ idx = 0
    /\ driver = NoDriver
    /\ frontier = <<>>
    /\ soup = Null
    /\ data = Null
    /\ row = 0
    /\ jsonDir = EmptyDir
    /\ htmlDir = EmptyDir
    /\ log = <<>>
    /\ lastCycle = Null
    /\ startJson = EmptyDir
    /\ fetches = 0
    /\ cityLinks = <<>>
    /\ communityLinks = <<>>
    /\ linksFile = NoFile
    /\ exit = "none"
    /\ cityPage = <<>>
    /\ regionPages = <<>>

\* lines 393-427 on the parsed plan page
ExtractFeatures ==
    /\ pc = "plan"
    /\ homeplan' = [Homeplan([href |-> None, img |-> None])
                      EXCEPT !.includedFeatures = IncludedFeatures(planSoup)]
    /\ pc' = "exit"
    /\ UNCHANGED <<idx, driver, planSoup>>
    /\ UNCHANGED <<pageVars, linksVars>>

SpecFeatures == InitFeatures /\ [][ExtractFeatures]_vars

(* ======================================================================= *)
(*                               Properties                                *)
(* ======================================================================= *)
Last(q) == q[Len(q)]
Finished == pc = "main" /\ idx > Len(frontier)
AllMaterializedAtStart == \A u \in Range(frontier) : JsonFile(u) \in DOMAIN startJson

(* C1. Resumability. A fetch_page call for a url whose output file (named by
   the url's last path segment) exists acquires no session, fetches nothing
   and leaves the json and html directories as they are; so a run that starts
   with every output of the frontier materialized fetches nothing and changes
   no output. *)
C1_SkipStep ==
    (pc = "main" /\ idx <= Len(frontier) /\ JsonFile(frontier[idx]) \in DOMAIN jsonDir)
    => /\ jsonDir' = jsonDir
       /\ htmlDir' = htmlDir
       /\ driver' = NoDriver
       /\ pc' = "main"
       /\ idx' = idx + 1
       /\ Len(log') = Len(log) + 1
       /\ Last(log').outcome = "skipped"
       /\ ~Last(log').session
       /\ ~Last(log').fetched
C1_SecondRun ==
    AllMaterializedAtStart
    => /\ jsonDir = startJson
       /\ \A i \in DOMAIN log :
            log[i].outcome = "skipped" /\ ~log[i].session /\ ~log[i].fetched
C1_Resumability == [][C1_SkipStep]_vars /\ []C1_SecondRun
\* a whole run over materialized outputs has ended, every url skipped
C1_Witness ==
    /\ Finished
    /\ AllMaterializedAtStart
    /\ Len(log) = Len(frontier)
    /\ \A i \in DOMAIN log : log[i].outcome = "skipped"

(* C2. Per-url failure isolation, as claimed: when the batch loop has ended,
   every url of the frontier was processed, every url whose fetch or assembly
   raised has no output file, and every url that did not fail and had no
   output before the run has one. *)
C2_FailureIsolation ==
    Finished
    => /\ Len(log) = Len(frontier)
       /\ \A i \in DOMAIN log :
            /\ log[i].url = frontier[i]
            /\ log[i].fault \in {"fetch", "assembly", "cleanup"}
                 => JsonFile(log[i].url) \notin DOMAIN jsonDir
            /\ (log[i].outcome # "error" /\ JsonFile(log[i].url) \notin DOMAIN startJson)
                 => JsonFile(log[i].url) \in DOMAIN jsonDir
\* the same over frontiers whose urls differ in their last path segment
C2_DistinctKeys ==
    (\A i, j \in DOMAIN frontier : i # j => JsonFile(frontier[i]) # JsonFile(frontier[j]))
    => C2_FailureIsolation

\* the list an enrichment cycle appends to
ChildList(kind) == IF kind = "site" THEN data.homesites ELSE data.homeplans

(* C3. Child failure containment, as claimed: when the fetch or the extraction
   of a child's detail page raised, the error was caught at the child, the
   child was appended to its list and fetch_page goes on with the next row. *)
C3_ChildContainment ==
    (lastCycle # Null /\ lastCycle.failed)
    => /\ pc = "rows"
       /\ ChildList(lastCycle.kind) # <<>>
\* the same when os.remove did not raise inside the handler
C3_UnlessCleanupRaises ==
    (lastCycle # Null /\ lastCycle.failed /\ ~lastCycle.escaped)
    => /\ pc = "rows"
       /\ ChildList(lastCycle.kind) # <<>>

(* C4. Temporary snapshot cleanup, as claimed: after an enrichment cycle has
   ended, on success or on an error at any step, the temporary snapshot of
   the sub-fetch does not exist. *)
C4_SnapshotAlwaysRemoved ==
    lastCycle # Null => lastCycle.tmp \notin DOMAIN htmlDir
\* the same when os.remove did not raise inside the handler
C4_UnlessCleanupRaises ==
    (lastCycle # Null /\ ~lastCycle.escaped) => lastCycle.tmp \notin DOMAIN htmlDir

(* C5. Scoped rendering session. Whenever fetch_page, get_city_links or
   get_community_links is not running, the session the function acquired has
   had quit called on it: no path out of the function leaves it open. *)
C5_SessionQuit ==
    /\ pc \in {"main", "city", "community", "exit"} => driver \in {NoDriver, "closed", "quit_raised"}
    /\ pc \in {"rows", "regions"} => driver = "open"
\* fetch_page left through its except block with a session acquired
C5_Witness ==
    /\ pc = "main"
    /\ log # <<>>
    /\ Last(log).fault = "assembly"
    /\ Last(log).session
    /\ driver = "closed"

(* C6. Cleanup errors are not fatal, as claimed: os.remove raising on a
   temporary snapshot never keeps fetch_page from saving the record, and
   driver.quit raising never keeps get_city_links or get_community_links from
   returning its links to main. *)
C6_CleanupNonFatal ==
    /\ \A i \in DOMAIN log : log[i].fault # "cleanup"
    /\ exit # "quit_raised"

(* C7. One record per source url, as claimed: after a run that started with no
   output and in which no call failed, every url of the frontier has an output
   document whose url field is that url, and no two urls share an output name. *)
C7_OneRecordPerUrl ==
    (Finished /\ startJson = EmptyDir /\ \A i \in DOMAIN log : log[i].outcome # "error")
    => /\ Len(log) = Len(frontier)
       /\ \A u \in Range(frontier) :
            /\ JsonFile(u) \in DOMAIN jsonDir
            /\ jsonDir[JsonFile(u)].url = u

\* the number of emitted features with section_index k
BucketSize(features, k) ==
    Cardinality({ i \in DOMAIN features : features[i].section_index = k })

(* C8. Feature bucketing, as claimed: when the counted total is at least 4 and
   q = total div 4, the i-th emitted feature (0-based) has section_index
   min(i div q, 3), and buckets 0, 1 and 2 hold exactly q features each. *)
C8_Bucketing ==
    (homeplan # Null /\ TotalFeatures(planSoup) >= 4)
    => LET q == TotalFeatures(planSoup) \div 4
           out == homeplan.includedFeatures
       IN  /\ \A i \in DOMAIN out : out[i].section_index = Min((i - 1) \div q, 3)
           /\ \A k \in 0..2 : BucketSize(out, k) = q
\* the index formula alone
C8_IndexFormula ==
    (homeplan # Null /\ TotalFeatures(planSoup) >= 4)
    => LET q == TotalFeatures(planSoup) \div 4
           out == homeplan.includedFeatures
       IN  \A i \in DOMAIN out : out[i].section_index = Min((i - 1) \div q, 3)

\* U: the primary images of the plans, the primary and gallery images of the sites
ChildImages(d) ==
    { d.homeplans[i].image_url : i \in { j \in DOMAIN d.homeplans : Truthy(d.homeplans[j].image_url) } }
    \cup { d.homesites[i].image_url : i \in { j \in DOMAIN d.homesites : Truthy(d.homesites[j].image_url) } }
    \cup UNION { Range(d.homesites[i].images) : i \in DOMAIN d.homesites }

(* C9. Image fallback. In the step that saves the record: if the assembled
   images list is empty, the saved list is one member of U when U is not
   empty and is empty when U is empty; a non-empty list is saved unchanged. *)
C9_SaveStep ==
    (pc = "rows" /\ pc' = "main" /\ Last(log').outcome = "saved")
    => LET saved == jsonDir'[JsonFile(data.url)].images
           U == ChildImages(data)
       IN  /\ data'.images = saved
           /\ data'.homesites = data.homesites
           /\ data'.homeplans = data.homeplans
           /\ (data.images = <<>> /\ U # {}) => (Len(saved) = 1 /\ saved[1] \in U)
           /\ (data.images = <<>> /\ U = {}) => saved = <<>>
           /\ data.images # <<>> => saved = data.images
C9_ImageFallback == [][C9_SaveStep]_vars
\* a saved record whose image is a site's gallery image, a plan image being there too
C9_Witness ==
    /\ pc = "main"
    /\ data # Null
    /\ data.images = <<AbsImg>>
    /\ Cardinality(ChildImages(data)) >= 2

\* some child of the record has an image, floor-plan images counted
AnyChildImage(d) ==
    \/ ChildImages(d) # {}
    \/ \E i \in DOMAIN d.homeplans : d.homeplans[i].floorplan_images # <<>>

(* C10. As claimed: the images list of a saved record is not empty when a
   child has an image, floor-plan images counted. *)
C10_ImagesNonEmpty ==
    (pc = "main" /\ data # Null /\ AnyChildImage(data)) => data.images # <<>>

(* C11. URL normalization, as claimed: a relative value is stored as the site
   origin followed by the value, an absolute value is stored unchanged. Here
   for the first slide's image of the community page, once the top-level
   extraction is done. *)
C11_UrlNormalization ==
    (pc = "rows" /\ Truthy(soup.slide))
    => data.images = << IF StartsWithHttp(soup.slide) THEN soup.slide
                        ELSE ORIGIN \o soup.slide >>

\* the link an href stands for, and the links a list of hrefs stands for
LinkOf(href) == IF StartsWithHttp(href) THEN href ELSE ORIGIN \o href
LinksOf(hrefs) == { LinkOf(hrefs[i]) : i \in { j \in DOMAIN hrefs : Truthy(hrefs[j]) } }
\* where a link first occurs among the hrefs
FirstAt(link, hrefs) ==
    CHOOSE i \in DOMAIN hrefs :
        /\ Truthy(hrefs[i]) /\ LinkOf(hrefs[i]) = link
        /\ \A j \in 1..(i - 1) : ~(Truthy(hrefs[j]) /\ LinkOf(hrefs[j]) = link)

(* C12. Deduplication in discovery. The region links returned by Level 1 are
   the links of the listing page, each once, in the order of first
   occurrence; the detail links returned by Level 2 are the links found on
   the region pages handled without error, each once; main, given a list
   that is not empty, writes that list to meritage_links.json. *)
C12_Results ==
    /\ pc \in {"community", "regions"}
       => /\ Range(cityLinks) = LinksOf(cityPage)
          /\ Distinct(cityLinks)
          /\ \A i, j \in DOMAIN cityLinks :
                i < j => FirstAt(cityLinks[i], cityPage) < FirstAt(cityLinks[j], cityPage)
    /\ (pc = "exit" /\ exit \in {"returned", "write_raised"})
       => /\ Distinct(communityLinks)
          /\ Range(communityLinks)
               = UNION { LinksOf(regionPages[i].hrefs) :
                           i \in { j \in DOMAIN regionPages : regionPages[j].ok } }
C12_WriteStep ==
    (pc = "regions" /\ pc' = "exit" /\ exit' = "returned" /\ communityLinks' # <<>>)
    => linksFile' = LinksDocument(communityLinks', TRUE)
C12_Deduplication == []C12_Results /\ [][C12_WriteStep]_vars
\* regions yielding X, Y and Y, Z: three links are written
C12_Witness ==
    /\ linksFile # NoFile
    /\ linksFile.complete
    /\ Len(linksFile.links) = 3
    /\ Len(regionPages) = 2
    /\ \A i \in 1..2 : regionPages[i].ok /\ Cardinality(LinksOf(regionPages[i].hrefs)) = 2

\* the links of the region pages handled without error
LinksOfRegions ==
    UNION { LinksOf(regionPages[i].hrefs) :
              i \in { j \in DOMAIN regionPages : regionPages[j].ok } }

(* C13. Region failure isolation. A region page whose fetch or parse raises
   adds no link and removes none, and the loop goes on with the session open;
   once get_community_links is over every region link has been handled in
   order, and what is returned (and then written) holds the links of the
   regions without error. *)
C13_FailedRegionStep ==
    (pc = "regions" /\ idx <= Len(cityLinks) /\ ~Last(regionPages').ok)
    => /\ communityLinks' = communityLinks
       /\ Last(regionPages').url = cityLinks[idx]
       /\ pc' = "regions"
       /\ idx' = idx + 1
       /\ driver' = "open"
C13_AllRegionsHandled ==
    /\ pc \in {"regions", "exit"} => Range(communityLinks) = LinksOfRegions
    /\ (pc = "exit" /\ exit \in {"returned", "quit_raised", "write_raised"}
          /\ cityLinks # <<>>)
       => /\ Len(regionPages) = Len(cityLinks)
          /\ \A i \in DOMAIN cityLinks : regionPages[i].url = cityLinks[i]
C13_ReturnStep ==
    (pc = "regions" /\ pc' = "exit" /\ exit' = "returned" /\ communityLinks' # <<>>)
    => /\ linksFile'.complete
       /\ Range(linksFile'.links) = LinksOfRegions
C13_RegionIsolation ==
    [][C13_FailedRegionStep /\ C13_ReturnStep]_vars /\ []C13_AllRegionsHandled
\* the first region gave links, the second failed, the links are written
C13_Witness ==
    /\ pc = "exit"
    /\ Len(regionPages) = 2
    /\ regionPages[1].ok
    /\ ~regionPages[2].ok
    /\ exit = "returned"
    /\ Range(communityLinks) = LinksOf(regionPages[1].hrefs)
    /\ communityLinks # <<>>
    /\ linksFile = LinksDocument(communityLinks, TRUE)

(* C14. Absence tolerance, as claimed: whatever markup a fetched community
   page lacks, its assembly raises no error, so no call ends with an error
   raised by the assembly. *)
C14_AbsenceTolerance ==
    \A i \in DOMAIN log : log[i].fault # "assembly"

(* C15. Snapshot retention, as claimed: when fetch_page returns the record of
   a url, the snapshot of the community page is on disk and holds the
   community page. *)
C15_SnapshotRetained ==
    (pc = "main" /\ log # <<>> /\ Last(log).outcome = "saved")
    => /\ Exists(htmlDir, HtmlFile(Last(log).url))
       /\ htmlDir[HtmlFile(Last(log).url)] = Last(log).url

(* C16. Degenerate bucketing, as claimed: when the counted total is below 4
   every emitted feature of the plan has the same section_index. *)
C16_SingleBucket ==
    (homeplan # Null /\ TotalFeatures(planSoup) < 4)
    => \A i, j \in DOMAIN homeplan.includedFeatures :
         homeplan.includedFeatures[i].section_index
           = homeplan.includedFeatures[j].section_index

(* C16, amended. When the counted total is below 4 the section advances after
   every emitted feature: the i-th emitted feature (0-based) has
   section_index i. *)
C16_OneBucketEach ==
    (homeplan # Null /\ TotalFeatures(planSoup) < 4)
    => \A i \in DOMAIN homeplan.includedFeatures :
         homeplan.includedFeatures[i].section_index = i - 1
\* three features, none blank: the indexes are 0, 1, 2
C16_Witness ==
    /\ homeplan # Null
    /\ TotalFeatures(planSoup) = 3
    /\ Len(homeplan.includedFeatures) = 3
    /\ homeplan.includedFeatures[3].section_index = 2

\* none of the fields the enrichment derives is populated
Unenriched(kind, child) ==
    IF kind = "site"
    THEN child.latitude = None /\ child.overview = None /\ child.images = <<>>
    ELSE child.includedFeatures = <<>> /\ child.half_baths = None
         /\ child.floorplan_images = <<>>

(* C17. All-or-nothing enrichment, as claimed: a child whose enrichment cycle
   failed at some step is in the record with none of its enrichment-derived
   fields populated. *)
C17_AllOrNothing ==
    (pc = "rows" /\ lastCycle # Null /\ lastCycle.failed /\ ~lastCycle.escaped)
    => Unenriched(lastCycle.kind, Last(ChildList(lastCycle.kind)))

(* C18. HomeSite ordinal ids, as claimed: the k-th entry of the homesites list
   of a saved record has id k. *)
C18_OrdinalIds ==
    (pc = "main" /\ data # Null)
    => \A k \in DOMAIN data.homesites : data.homesites[k].id = k

(* C19. Materialized implies complete, as claimed: every output file that
   exists holds the complete document of a record. *)
C19_MaterializedComplete ==
    \A f \in DOMAIN jsonDir : jsonDir[f].complete

====
